---------------------------- MODULE Spec2Model ----------------------------
(***************************************************************************)
(* The resilient request layer of chatgpt_memory/utils/openai_utils.py:    *)
(* one call of openai_request, i.e. the single attempt (POST, json.loads,  *)
(* classification by status code) wrapped by the decorator                 *)
(* retry_with_exponential_backoff(backoff_in_seconds, max_retries,         *)
(* errors=(OpenAIRateLimitError, OpenAIError)).                            *)
(*                                                                         *)
(* The transport (requests.request) is the environment: each call of it    *)
(* either raises a transport error or returns a status code and a body     *)
(* text, chosen nondeterministically.  `responses` records what it gave.   *)
(* `twin` is a second call of the same function, run in lock step with     *)
(* `send` on the same transport results with the statuses 429 and 500      *)
(* exchanged; it exists to compare the two runs.                           *)
(***************************************************************************)
EXTENDS Integers, Sequences, FiniteSets, TLC

\* Bounds of the model.
MaxAttempts == 4
MaxBaseDelay == 2

VARIABLES payload, max_attempts, base_delay, sent, responses, send, twin

vars == <<payload, max_attempts, base_delay, sent, responses, send, twin>>

----------------------------------------------------------------------------
\* Values

\* HTTP status codes the transport can answer with.
Statuses == {200, 201, 429, 500}

\* Response bodies (response.text): two JSON documents and one that is not JSON.
Bodies == {"{}", "{\"id\": \"1\"}", "<html>"}

\* Exceptions requests.request raises by itself.
TransportErrors == {"ConnectionError", "Timeout"}

\* Payload dictionaries, as sets of <<key, value>> pairs.
Payloads == {{}, {<<"model", "ada">>}}

\* What one call of requests.request can produce.
TransportResults ==
    [kind : {"response"}, status_code : Statuses, text : Bodies, error : {""}]
    \cup [kind : {"raise"}, status_code : {0}, text : {""}, error : TransportErrors]

\* json.dumps on the payloads above.
json_dumps(p) ==
    IF p = {} THEN "{}" ELSE "{\"model\": \"ada\"}"

\* json.loads on the bodies above: the parsed dictionary, or a decode error.
json_loads(text) ==
    CASE text = "{}" -> [ok |-> TRUE, value |-> {}]
      [] text = "{\"id\": \"1\"}" -> [ok |-> TRUE, value |-> {<<"id", "1">>}]
      [] OTHER -> [ok |-> FALSE, value |-> {}]

\* The result of calling a Python function: a returned value or a raised exception.
Return(res) ==
    [kind |-> "return", status_code |-> 0, text |-> "", res |-> res]

Raise(kind, status_code, text) ==
    [kind |-> kind, status_code |-> status_code, text |-> text, res |-> {}]

NoOutcome == [kind |-> "none", status_code |-> 0, text |-> "", res |-> {}]

\* errors=(OpenAIRateLimitError, OpenAIError): the exceptions the decorator retries.
errors == {"OpenAIRateLimitError", "OpenAIError"}

----------------------------------------------------------------------------
\* Mutants of openai_request (plausible slips in the body of the function).

\* The status code is inspected before the body is parsed.
openai_request_status_first(result) ==
    IF result.kind = "raise" THEN Raise(result.error, 0, "")
    ELSE IF result.status_code # 200
         THEN IF result.status_code = 429
              THEN Raise("OpenAIRateLimitError", 0, result.text)
              ELSE Raise("OpenAIError", result.status_code, result.text)
         ELSE LET res == json_loads(result.text)
              IN IF res.ok THEN Return(res.value) ELSE Raise("JSONDecodeError", 0, "")

\* The 429 branch is missing: every non-200 status raises OpenAIError.
openai_request_no_429_branch(result) ==
    IF result.kind = "raise" THEN Raise(result.error, 0, "")
    ELSE LET res == json_loads(result.text)
         IN IF ~res.ok THEN Raise("JSONDecodeError", 0, "")
            ELSE IF result.status_code # 200
                 THEN Raise("OpenAIError", result.status_code, result.text)
                 ELSE Return(res.value)

\* Transport errors are caught and re-raised as OpenAIError.
openai_request_wraps_transport(result) ==
    IF result.kind = "raise" THEN Raise("OpenAIError", 0, "")
    ELSE LET res == json_loads(result.text)
         IN IF ~res.ok THEN Raise("JSONDecodeError", 0, "")
            ELSE IF result.status_code # 200
                 THEN IF result.status_code = 429
                      THEN Raise("OpenAIRateLimitError", 0, result.text)
                      ELSE Raise("OpenAIError", result.status_code, result.text)
                 ELSE Return(res.value)

\* The raw response is returned instead of the parsed body.
openai_request_drops_body(result) ==
    IF result.kind = "raise" THEN Raise(result.error, 0, "")
    ELSE LET res == json_loads(result.text)
         IN IF ~res.ok THEN Raise("JSONDecodeError", 0, "")
            ELSE IF result.status_code # 200
                 THEN IF result.status_code = 429
                      THEN Raise("OpenAIRateLimitError", 0, result.text)
                      ELSE Raise("OpenAIError", result.status_code, result.text)
                 ELSE Return({})

\* 429 is raised through response.raise_for_status(), an exception the
\* decorator does not retry.
openai_request_429_http_error(result) ==
    IF result.kind = "raise" THEN Raise(result.error, 0, "")
    ELSE LET res == json_loads(result.text)
         IN IF ~res.ok THEN Raise("JSONDecodeError", 0, "")
            ELSE IF result.status_code # 200
                 THEN IF result.status_code = 429
                      THEN Raise("HTTPError", 429, result.text)
                      ELSE Raise("OpenAIError", result.status_code, result.text)
                 ELSE Return(res.value)

\* Server errors (>= 500) are raised through response.raise_for_status().
openai_request_5xx_http_error(result) ==
    IF result.kind = "raise" THEN Raise(result.error, 0, "")
    ELSE LET res == json_loads(result.text)
         IN IF ~res.ok THEN Raise("JSONDecodeError", 0, "")
            ELSE IF result.status_code # 200
                 THEN IF result.status_code = 429
                      THEN Raise("OpenAIRateLimitError", 0, result.text)
                      ELSE IF result.status_code >= 500
                           THEN Raise("HTTPError", result.status_code, result.text)
                           ELSE Raise("OpenAIError", result.status_code, result.text)
                 ELSE Return(res.value)

\* OpenAIError is built without status_code=response.status_code.
openai_request_no_status_code(result) ==
    IF result.kind = "raise" THEN Raise(result.error, 0, "")
    ELSE LET res == json_loads(result.text)
         IN IF ~res.ok THEN Raise("JSONDecodeError", 0, "")
            ELSE IF result.status_code # 200
                 THEN IF result.status_code = 429
                      THEN Raise("OpenAIRateLimitError", 0, result.text)
                      ELSE Raise("OpenAIError", 0, result.text)
                 ELSE Return(res.value)

\* Success is tested as "status below 300" instead of "status is 200".
openai_request_any_2xx(result) ==
    IF result.kind = "raise" THEN Raise(result.error, 0, "")
    ELSE LET res == json_loads(result.text)
         IN IF ~res.ok THEN Raise("JSONDecodeError", 0, "")
            ELSE IF result.status_code >= 300
                 THEN IF result.status_code = 429
                      THEN Raise("OpenAIRateLimitError", 0, result.text)
                      ELSE Raise("OpenAIError", result.status_code, result.text)
                 ELSE Return(res.value)

----------------------------------------------------------------------------
\* The single attempt: the body of openai_request, given what the transport
\* produced for the POST of line 105.
\*   line 105: an exception of requests.request propagates;
\*   line 106: json.loads(response.text), before the status is looked at;
\*   lines 110-121: non-200 raises OpenAIRateLimitError (429, no status_code
\*                  argument) or OpenAIError(status_code=...), both carrying
\*                  response.text in the message;
\*   line 123: return res.
openai_request(result) ==
    IF result.kind = "raise" THEN Raise(result.error, 0, "")
    ELSE LET res == json_loads(result.text)
         IN IF ~res.ok THEN Raise("JSONDecodeError", 0, "")
            ELSE IF result.status_code # 200
                 THEN IF result.status_code = 429
                      THEN Raise("OpenAIRateLimitError", 0, result.text)
                      ELSE Raise("OpenAIError", result.status_code, result.text)
                 ELSE Return(res.value)

----------------------------------------------------------------------------
\* The retry policy (decorator retry_with_exponential_backoff), as a state
\* machine over a call record c.  The decorator is defined in
\* chatgpt_memory/utils/reflection.py and its parameters in
\* chatgpt_memory/environment.py; the policy below follows the design
\* document (section 4.2): every exception in `errors` is retried, the wait
\* after attempt i (0-indexed) is base_delay * 2^i, and after max_attempts
\* attempts the last exception goes to the caller.  The optional jitter of
\* the design is left out: the waits are the exact schedule.
\* The record c:
\*   pc          ATTEMPTING, IN_FLIGHT, WAIT, SUCCESS or FAILED
\*   calls       transport calls made so far
\*   inflight    attempts in progress
\*   num_retries backoff waits started so far
\*   remaining   seconds left of the current backoff wait
\*   waits       the backoff waits that have elapsed, in order
\*   result      what the last attempt returned or raised
\*   outcome     the value returned or the exception raised to the caller

NewCall ==
    [pc |-> "ATTEMPTING", calls |-> 0, inflight |-> 0, num_retries |-> 0,
     remaining |-> 0, waits |-> <<>>, result |-> NoOutcome,
     outcome |-> NoOutcome]

\* Mutant: the attempt ceiling is tested after one attempt too many.
handle_result_one_more_attempt(c, r) ==
    IF c.pc # "IN_FLIGHT" THEN c
    ELSE IF r.kind = "return"
         THEN [c EXCEPT !.pc = "SUCCESS", !.inflight = @ - 1, !.result = r,
                        !.outcome = r]
         ELSE IF r.kind \in errors /\ c.calls <= max_attempts
              THEN [c EXCEPT !.pc = "WAIT", !.inflight = @ - 1, !.result = r,
                             !.remaining = base_delay * 2^(c.num_retries),
                             !.num_retries = @ + 1]
              ELSE [c EXCEPT !.pc = "FAILED", !.inflight = @ - 1, !.result = r,
                             !.outcome = r]

\* The wrapped function has returned or raised r.
handle_result(c, r) ==
    IF c.pc # "IN_FLIGHT" THEN c
    ELSE IF r.kind = "return"
         THEN [c EXCEPT !.pc = "SUCCESS", !.inflight = @ - 1, !.result = r,
                        !.outcome = r]
         ELSE IF r.kind \in errors /\ c.calls < max_attempts
              THEN [c EXCEPT !.pc = "WAIT", !.inflight = @ - 1, !.result = r,
                             !.remaining = base_delay * 2^(c.num_retries),
                             !.num_retries = @ + 1]
              ELSE [c EXCEPT !.pc = "FAILED", !.inflight = @ - 1, !.result = r,
                             !.outcome = r]

\* The wrapper calls the wrapped function: the POST goes out.
start_attempt(c) ==
    IF c.pc # "ATTEMPTING" THEN c
    ELSE [c EXCEPT !.pc = "IN_FLIGHT", !.calls = @ + 1, !.inflight = @ + 1]

\* One second of the backoff sleep passes.
sleep_tick(c) ==
    IF c.pc = "WAIT" /\ c.remaining > 0
    THEN [c EXCEPT !.remaining = @ - 1]
    ELSE c

\* Mutant: the sleep is skipped, the next attempt starts at once.
wake_without_sleeping(c) ==
    IF c.pc = "WAIT"
    THEN [c EXCEPT !.pc = "ATTEMPTING", !.remaining = 0]
    ELSE c

\* The sleep has elapsed: the loop goes round to the next attempt.
wake(c) ==
    IF c.pc = "WAIT" /\ c.remaining = 0
    THEN [c EXCEPT !.pc = "ATTEMPTING",
                   !.waits = Append(@, base_delay * 2^(c.num_retries - 1))]
    ELSE c

\* The twin's transport: the same results with 429 and 500 exchanged.
Swap(result) ==
    IF result.kind = "response" /\ result.status_code = 429
    THEN [result EXCEPT !.status_code = 500]
    ELSE IF result.kind = "response" /\ result.status_code = 500
         THEN [result EXCEPT !.status_code = 429]
         ELSE result

----------------------------------------------------------------------------
\* The state machine

Init ==
    /\ payload \in Payloads
    /\ max_attempts \in 1..MaxAttempts
    /\ base_delay \in 1..MaxBaseDelay
    /\ sent = ""
    /\ responses = <<>>
    /\ send = NewCall
    /\ twin = NewCall

\* Line 105, the request: json.dumps(payload) is posted.
Request ==
    /\ send.pc = "ATTEMPTING"
    /\ sent' = json_dumps(payload)
    /\ send' = start_attempt(send)
    /\ twin' = start_attempt(twin)
    /\ UNCHANGED <<payload, max_attempts, base_delay, responses>>

\* Lines 105-123, the answer: the transport produces a result, openai_request
\* returns or raises, and the decorator returns, gives up or starts a backoff.
Respond ==
    /\ send.pc = "IN_FLIGHT"
    /\ \E result \in TransportResults :
         /\ responses' = Append(responses, result)
         /\ send' = handle_result(send, openai_request(result))
         /\ twin' = handle_result(twin, openai_request(Swap(result)))
    /\ UNCHANGED <<payload, max_attempts, base_delay, sent>>

\* time.sleep: a second passes.
Tick ==
    /\ send.pc = "WAIT"
    /\ send.remaining > 0
    /\ send' = sleep_tick(send)
    /\ twin' = sleep_tick(twin)
    /\ UNCHANGED <<payload, max_attempts, base_delay, sent, responses>>

\* time.sleep returns.
Wake ==
    /\ send.pc = "WAIT"
    /\ send' = wake(send)
    /\ send' # send
    /\ twin' = wake(twin)
    /\ UNCHANGED <<payload, max_attempts, base_delay, sent, responses>>

Next == Request \/ Respond \/ Tick \/ Wake

Spec == Init /\ [][Next]_vars

\* The call blocks its thread and nothing else runs in it: whatever step is
\* enabled is eventually taken (each attempt is bounded by its timeout).
FairSpec == Spec /\ WF_vars(Next)

TypeOK ==
    /\ payload \in Payloads
    /\ max_attempts \in 1..MaxAttempts
    /\ base_delay \in 1..MaxBaseDelay
    /\ send.pc \in {"ATTEMPTING", "IN_FLIGHT", "WAIT", "SUCCESS", "FAILED"}
    /\ send.calls = Len(responses) + send.inflight

----------------------------------------------------------------------------
\* Vocabulary of the properties

\* The bodies that are JSON documents.
JsonBodies == {"{}", "{\"id\": \"1\"}"}

\* The transport answered with status s (whatever the body).
HasStatus(r, s) == r.kind = "response" /\ r.status_code = s

\* The transport answered with status s and a body that is JSON.
HasStatusJson(r, s) == HasStatus(r, s) /\ r.text \in JsonBodies

\* A transport result the single attempt cannot classify: a transport error,
\* or a body that does not parse.
Unclassified(r) == r.kind = "raise" \/ r.text \notin JsonBodies

\* A transport result the single attempt classifies as an API failure.
Classified(r) == r.kind = "response" /\ r.text \in JsonBodies /\ r.status_code # 200

Terminal(c) == c.pc \in {"SUCCESS", "FAILED"}

\* The first k backoff waits: base_delay * 2^i after attempt i (0-indexed).
Schedule(k) == [i \in 1..k |-> base_delay * 2^(i - 1)]

LastResponse == responses[Len(responses)]

----------------------------------------------------------------------------
\* C1: for every payload, when the first transport call answers 200 with a
\* JSON body, the call returns the parsed body after exactly one transport
\* call and no backoff wait.
C1_First200Succeeds ==
    (Len(responses) >= 1 /\ HasStatusJson(responses[1], 200)) =>
        /\ Len(responses) = 1
        /\ send.pc = "SUCCESS"
        /\ send.calls = 1
        /\ send.waits = <<>>
        /\ send.num_retries = 0
        /\ send.outcome.kind = "return"
        /\ send.outcome.res =
             (IF responses[1].text = "{}" THEN {} ELSE {<<"id", "1">>})

C1_Witness ==
    /\ Len(responses) = 1
    /\ HasStatusJson(responses[1], 200)
    /\ responses[1].text # "{}"
    /\ payload # {}
    /\ sent = "{\"model\": \"ada\"}"
    /\ send.pc = "SUCCESS"

\* C2 as stated: 429 on the first k calls and 200 on call k+1, whatever the
\* bodies, gives success after k+1 calls and the k waits base_delay * 2^i.
C2_AnyBody ==
    \A k \in 0..(max_attempts - 1) :
        /\ (Len(responses) = k /\ \A i \in 1..k : HasStatus(responses[i], 429))
              => ~Terminal(send)
        /\ (/\ Len(responses) = k + 1
            /\ \A i \in 1..k : HasStatus(responses[i], 429)
            /\ HasStatus(responses[k + 1], 200))
              => /\ send.pc = "SUCCESS"
                 /\ send.calls = k + 1
                 /\ send.waits = Schedule(k)

\* C2, amended: for every k < max_attempts, when the transport answers 429
\* with a JSON body on the first k calls and 200 with a JSON body on call
\* k+1, the call goes on after each of the k failures and returns success
\* after exactly k+1 transport calls and exactly k backoff waits, the wait
\* after attempt i (0-indexed) being base_delay * 2^i, each twice the one before.
C2_BackoffThenSuccess ==
    \A k \in 0..(max_attempts - 1) :
        /\ (Len(responses) = k /\ \A i \in 1..k : HasStatusJson(responses[i], 429))
              => /\ ~Terminal(send)
                 /\ send.waits = Schedule(IF send.pc = "WAIT" THEN k - 1 ELSE k)
        /\ (/\ Len(responses) = k + 1
            /\ \A i \in 1..k : HasStatusJson(responses[i], 429)
            /\ HasStatusJson(responses[k + 1], 200))
              => /\ send.pc = "SUCCESS"
                 /\ send.calls = k + 1
                 /\ Len(send.waits) = k
                 /\ send.waits = Schedule(k)
                 /\ (k >= 1 => send.waits[1] = base_delay)
                 /\ \A i \in 2..k : send.waits[i] = 2 * send.waits[i - 1]

\* max_attempts = 3, base_delay = 1, [429, 429, 200]: success, waits <<1, 2>>.
C2_Witness ==
    /\ max_attempts = 3
    /\ base_delay = 1
    /\ Len(responses) = 3
    /\ HasStatusJson(responses[1], 429)
    /\ HasStatusJson(responses[2], 429)
    /\ HasStatusJson(responses[3], 200)
    /\ send.pc = "SUCCESS"
    /\ send.waits = <<1, 2>>

\* C3 as stated: 429 on every call, whatever the bodies, ends RateLimited
\* after exactly max_attempts transport calls.
C3_AnyBody ==
    (\A i \in 1..Len(responses) : HasStatus(responses[i], 429)) =>
        /\ Len(responses) < max_attempts => ~Terminal(send)
        /\ Terminal(send) =>
             /\ send.pc = "FAILED"
             /\ send.outcome.kind = "OpenAIRateLimitError"
             /\ send.calls = max_attempts

\* C3, amended: when the transport answers 429 with a JSON body on every call,
\* the call ends with a final RateLimited failure and the number of transport
\* calls made is exactly max_attempts.
C3_RateLimitedExhaustion ==
    (\A i \in 1..Len(responses) : HasStatusJson(responses[i], 429)) =>
        /\ Len(responses) < max_attempts => ~Terminal(send)
        /\ send.calls <= max_attempts
        /\ Len(responses) = max_attempts =>
             /\ send.pc = "FAILED"
             /\ send.outcome.kind = "OpenAIRateLimitError"
             /\ send.outcome.text = LastResponse.text
             /\ send.calls = max_attempts

C3_Witness ==
    /\ max_attempts = 3
    /\ Len(responses) = 3
    /\ \A i \in 1..3 : HasStatusJson(responses[i], 429)
    /\ send.pc = "FAILED"
    /\ send.calls = 3
    /\ send.outcome.kind = "OpenAIRateLimitError"

\* The two runs, fed the same transport results with 429 and 500 exchanged,
\* are at the same place with the same calls and the same waits.
SameRetries ==
    /\ twin.pc = send.pc
    /\ twin.calls = send.calls
    /\ twin.num_retries = send.num_retries
    /\ twin.remaining = send.remaining
    /\ twin.waits = send.waits

\* C4 as stated: 500 is retried as 429 is, and 500 on every call, whatever the
\* bodies, ends ServiceError with status_code 500.
C4_AnyBody ==
    /\ SameRetries
    /\ (\A i \in 1..Len(responses) : HasStatus(responses[i], 500)) =>
          /\ Len(responses) < max_attempts => ~Terminal(send)
          /\ Terminal(send) =>
               /\ send.pc = "FAILED"
               /\ send.outcome.kind = "OpenAIError"
               /\ send.outcome.status_code = 500

\* C4, amended: a transport answering 500 is retried identically to 429: for
\* the same positions of failing responses the transport calls and the
\* backoff waits are the same whether the failing status is 429 or 500; and
\* when every call answers 500 with a JSON body the final outcome is
\* ServiceError with status_code 500, after max_attempts calls.
C4_ServerErrorRetriedAlike ==
    /\ SameRetries
    /\ (\A i \in 1..Len(responses) : HasStatusJson(responses[i], 500)) =>
          /\ Len(responses) < max_attempts => ~Terminal(send)
          /\ Len(responses) = max_attempts =>
               /\ send.pc = "FAILED"
               /\ send.calls = max_attempts
               /\ send.outcome.kind = "OpenAIError"
               /\ send.outcome.status_code = 500
               /\ twin.outcome.kind = "OpenAIRateLimitError"

C4_Witness ==
    /\ max_attempts = 3
    /\ Len(responses) = 3
    /\ \A i \in 1..3 : HasStatusJson(responses[i], 500)
    /\ send.pc = "FAILED"
    /\ send.outcome.status_code = 500
    /\ send.waits = <<base_delay, 2 * base_delay>>
    /\ twin.waits = send.waits
    /\ twin.outcome.kind = "OpenAIRateLimitError"

\* C5: an unclassified failure (a transport error, or a body that does not
\* parse) on any attempt ends the call as FAILED at once: it is the last
\* transport call, no backoff wait follows it, and what is raised is not one
\* of the retried error kinds.
C5_UnclassifiedIsFatal ==
    \A i \in 1..Len(responses) :
        Unclassified(responses[i]) =>
            /\ i = Len(responses)
            /\ send.pc = "FAILED"
            /\ send.calls = i
            /\ send.inflight = 0
            /\ send.num_retries = i - 1
            /\ Len(send.waits) = i - 1
            /\ send.remaining = 0
            /\ send.outcome.kind \notin errors \cup {"return", "none"}

C5_Witness ==
    /\ max_attempts >= 3
    /\ Len(responses) = 2
    /\ responses[2].kind = "raise"
    /\ responses[2].error = "Timeout"
    /\ send.pc = "FAILED"
    /\ send.outcome.kind = "Timeout"

\* C6: when all max_attempts attempts end in classified failures, the final
\* outcome is the classified failure of the last attempt, kind, status code
\* and response text unchanged; it is not a success and not an earlier failure.
C6_LastFailurePropagates ==
    (Len(responses) = max_attempts /\ \A i \in 1..Len(responses) : Classified(responses[i])) =>
        /\ send.pc = "FAILED"
        /\ send.outcome.kind =
             (IF LastResponse.status_code = 429 THEN "OpenAIRateLimitError" ELSE "OpenAIError")
        /\ LastResponse.status_code # 429 => send.outcome.status_code = LastResponse.status_code
        /\ send.outcome.text = LastResponse.text
        /\ send.outcome = send.result

C6_Witness ==
    /\ max_attempts = 3
    /\ Len(responses) = 3
    /\ HasStatusJson(responses[1], 429)
    /\ HasStatusJson(responses[2], 429)
    /\ HasStatusJson(responses[3], 500)
    /\ responses[3].text # responses[2].text
    /\ send.pc = "FAILED"
    /\ send.outcome.kind = "OpenAIError"
    /\ send.outcome.status_code = 500

\* C7 as stated: the attempt classifies by status alone, whatever the body.
C7_StatusAlone ==
    (Len(responses) >= 1 /\ LastResponse.kind = "response") =>
        /\ LastResponse.status_code = 200 => send.result.kind = "return"
        /\ LastResponse.status_code = 429 => send.result.kind = "OpenAIRateLimitError"
        /\ LastResponse.status_code \notin {200, 429} =>
             /\ send.result.kind = "OpenAIError"
             /\ send.result.status_code = LastResponse.status_code
        /\ send.result.kind = "return" => LastResponse.status_code = 200
        /\ send.result.kind = "OpenAIRateLimitError" => LastResponse.status_code = 429

\* C7, amended: a single attempt whose response body parses as JSON is
\* classified by HTTP status alone: 200 returns the parsed body, 429 fails
\* with RateLimited, every other status s fails with ServiceError carrying
\* status_code = s; and for any body, no status other than 200 yields success
\* and no status other than 429 yields RateLimited.
C7_ClassifiedByStatus ==
    (Len(responses) >= 1 /\ LastResponse.kind = "response") =>
        /\ LastResponse.text \in JsonBodies =>
             /\ LastResponse.status_code = 200 =>
                  /\ send.result.kind = "return"
                  /\ send.result.res =
                       (IF LastResponse.text = "{}" THEN {} ELSE {<<"id", "1">>})
             /\ LastResponse.status_code = 429 =>
                  /\ send.result.kind = "OpenAIRateLimitError"
                  /\ send.result.text = LastResponse.text
             /\ LastResponse.status_code \notin {200, 429} =>
                  /\ send.result.kind = "OpenAIError"
                  /\ send.result.status_code = LastResponse.status_code
                  /\ send.result.text = LastResponse.text
        /\ send.result.kind = "return" => LastResponse.status_code = 200
        /\ send.result.kind = "OpenAIRateLimitError" => LastResponse.status_code = 429

C7_Witness ==
    /\ Len(responses) >= 1
    /\ HasStatusJson(LastResponse, 201)
    /\ send.result.kind = "OpenAIError"
    /\ send.result.status_code = 201

\* C8: within one call, attempts and backoff waits strictly alternate: an
\* attempt begins only when no attempt is in progress and every earlier
\* attempt's backoff wait has fully elapsed; a wait ends only when its whole
\* delay has passed; and no two attempts are ever in progress at once.
C8_AttemptsAndWaitsAlternate ==
    /\ [](send.inflight \in {0, 1} /\ (send.pc = "WAIT" => send.inflight = 0))
    /\ [][send'.calls # send.calls =>
            /\ send'.calls = send.calls + 1
            /\ send.pc = "ATTEMPTING"
            /\ send.inflight = 0
            /\ send.remaining = 0
            /\ Len(send.waits) = send.calls
            /\ send.num_retries = send.calls]_vars
    /\ [][(send.pc = "WAIT" /\ send'.pc # "WAIT") =>
            /\ send.remaining = 0
            /\ send'.pc = "ATTEMPTING"
            /\ send'.waits = Append(send.waits, base_delay * 2^(send.calls - 1))]_vars

C8_Witness ==
    /\ send.pc = "IN_FLIGHT"
    /\ send.calls = 3
    /\ send.waits = <<base_delay, 2 * base_delay>>

\* C9: the body is parsed before the status is inspected, so a response whose
\* body is not JSON gives a parse failure for every status code, 429 and 500
\* included: it is not reported as RateLimited or ServiceError, it is not
\* retried, and the call ends after that transport call.
C9_ParseBeforeStatus ==
    \A i \in 1..Len(responses) :
        (responses[i].kind = "response" /\ responses[i].text \notin JsonBodies) =>
            /\ i = Len(responses)
            /\ send.result.kind = "JSONDecodeError"
            /\ send.outcome.kind = "JSONDecodeError"
            /\ send.pc = "FAILED"
            /\ send.calls = i

C9_Witness ==
    /\ max_attempts >= 2
    /\ Len(responses) = 1
    /\ HasStatus(responses[1], 429)
    /\ responses[1].text = "<html>"
    /\ send.pc = "FAILED"
    /\ send.calls = 1
    /\ send.outcome.kind = "JSONDecodeError"

\* C10: whatever the transport answers, the call eventually reaches SUCCESS or
\* FAILED, having made at most max_attempts transport calls and at most
\* max_attempts - 1 backoff waits; no wait follows the final attempt, and a
\* terminal state is never left.
C10_Terminates ==
    /\ [](/\ send.calls <= max_attempts
          /\ send.num_retries <= max_attempts - 1
          /\ Len(send.waits) <= max_attempts - 1
          /\ Terminal(send) =>
               /\ send.num_retries = send.calls - 1
               /\ Len(send.waits) = send.calls - 1
               /\ send.remaining = 0)
    /\ [][Terminal(send) => send' = send]_vars
    /\ <>Terminal(send)

C10_Witness ==
    /\ max_attempts >= 3
    /\ send.pc = "FAILED"
    /\ send.calls = max_attempts
    /\ Len(send.waits) = max_attempts - 1
    /\ send.outcome.kind \in errors

=============================================================================
